---------------------------- MODULE Spec2Model ----------------------------
(***************************************************************************)
(* A model of the generation pipeline of aliri_braid_impl::codegen         *)
(* (src/aliri_braid_impl/src/codegen/mod.rs): Params::parse, Params::build *)
(* and CodeGen::generate, with the helpers they call.                      *)
(*                                                                         *)
(* Strings are TLA+ strings; Len, \o and SubSeq act on them as on Rust     *)
(* strings (ASCII only).  Option<T> is a record [some, val]; a Result is a *)
(* record with a tag and the payloads of both variants.  A panic of the    *)
(* Rust code is an outcome of its own, never folded into Err.              *)
(***************************************************************************)
EXTENDS Integers, Sequences, FiniteSets, TLC

(***************************** bounds **************************************)
\* Longest list of configuration entries handed to Params::parse.
MaxArgs == 2
\* Longest field list of a type declaration handed to Params::build.
MaxFields == 2

(************************** option vocabulary ******************************)
\* The keys of symbol.rs, under the names section 6 of the specification
\* gives them.
REF == "reference-type"
VALIDATOR == "validator"
NORMALIZER == "normalizer"
REF_DOC == "reference-doc"
REF_ATTR == "reference-attr"
OWNED_ATTR == "owned-attr"
DEBUG == "diagnostic-format"
DISPLAY == "display-format"
CLONE == "duplication"
SERDE == "serialization"

(****************************** strings ************************************)
IdentStart ==
  {"a","b","c","d","e","f","g","h","i","j","k","l","m","n","o","p","q","r",
   "s","t","u","v","w","x","y","z","A","B","C","D","E","F","G","H","I","J",
   "K","L","M","N","O","P","Q","R","S","T","U","V","W","X","Y","Z","_"}

\* The backtick ` of the messages is written as a single quote.
Quote(s) == "'" \o s \o "'"

IdentContinue == IdentStart \cup {"0","1","2","3","4","5","6","7","8","9"}

\* proc_macro2::Ident::new accepts exactly the non-empty words of identifier
\* characters; on anything else it panics.
IsIdent(s) ==
  /\ Len(s) > 0
  /\ SubSeq(s, 1, 1) \in IdentStart
  /\ \A i \in 2..Len(s) : SubSeq(s, i, i) \in IdentContinue

\* str::ends_with
EndsWith(s, suffix) ==
  /\ Len(s) >= Len(suffix)
  /\ SubSeq(s, Len(s) - Len(suffix) + 1, Len(s)) = suffix

(******************************* Option ************************************)
\* syn::Type: its variant and the sequence of its tokens ("a::B" is
\* <<"a", "::", "B">>).
NoType == [variant |-> "None", tokens |-> <<>>]

NoneTy == [some |-> FALSE, val |-> NoType]
SomeTy(ty) == [some |-> TRUE, val |-> ty]

NoneIdent == [some |-> FALSE, val |-> ""]
SomeIdent(id) == [some |-> TRUE, val |-> id]

\* <syn::Type as ToTokens>::to_token_stream().to_string(): the tokens,
\* separated by single spaces.
RECURSIVE JoinTokens(_)
JoinTokens(toks) ==
  IF toks = <<>> THEN ""
  ELSE IF Len(toks) = 1 THEN toks[1]
  ELSE toks[1] \o " " \o JoinTokens(Tail(toks))

TypeToString(ty) == JoinTokens(ty.tokens)

\* syn::Type::Path of a path made of one identifier (syn::Path::from(ident)).
TypeOfIdent(id) == [variant |-> "Path", tokens |-> <<id>>]

(************************ literals and type literals ***********************)
\* Position of the first "::" of s at or after i, or 0.
RECURSIVE FindSep(_, _)
FindSep(s, i) ==
  IF i + 1 > Len(s) THEN 0
  ELSE IF SubSeq(s, i, i + 1) = "::" THEN i
  ELSE FindSep(s, i + 1)

\* The tokens of a path written in a string literal: identifiers separated
\* by "::".  ok is FALSE when a segment is no identifier.
RECURSIVE PathTokens(_)
PathTokens(s) ==
  LET k == FindSep(s, 1) IN
  IF k = 0 THEN [ok |-> IsIdent(s), tokens |-> <<s>>]
  ELSE LET head == SubSeq(s, 1, k - 1)
           rest == PathTokens(SubSeq(s, k + 2, Len(s)))
       IN [ok |-> IsIdent(head) /\ rest.ok,
           tokens |-> <<head, "::">> \o rest.tokens]

\* symbol::parse_lit_into_type: a string literal holding a type.
parse_lit_into_type(sym, lit) ==
  IF lit.kind # "Str"
    THEN [ok |-> FALSE, ty |-> NoType,
          msg |-> "expected " \o sym \o " attribute to be a string"]
  ELSE LET p == PathTokens(lit.text) IN
       IF p.ok THEN [ok |-> TRUE, msg |-> "",
                     ty |-> [variant |-> "Path", tokens |-> p.tokens]]
       ELSE [ok |-> FALSE, ty |-> NoType,
             msg |-> "failed to parse " \o sym \o " as a type"]

\* symbol::parse_lit_into_string: a string literal.
parse_lit_into_string(sym, lit) ==
  IF lit.kind # "Str"
    THEN [ok |-> FALSE, s |-> "",
          msg |-> "expected " \o sym \o " attribute to be a string"]
  ELSE [ok |-> TRUE, s |-> lit.text, msg |-> ""]

(*************************** capability policy *****************************)
\* <DelegatingImplOption as FromStr>::from_str followed by .into()
DelegatingImplOption_parse(s) ==
  IF s = "implement" THEN [ok |-> TRUE, opt |-> "Implement", msg |-> ""]
  ELSE IF s = "delegate" THEN [ok |-> TRUE, opt |-> "Delegate", msg |-> ""]
  ELSE IF s = "off" THEN [ok |-> TRUE, opt |-> "Omit", msg |-> ""]
  ELSE [ok |-> FALSE, opt |-> "Omit", msg |-> "invalid policy " \o Quote(s)]

\* <ImplOption as FromStr>::from_str followed by .into()
ImplOption_parse(s) ==
  IF s = "implement" THEN [ok |-> TRUE, opt |-> "Implement", msg |-> ""]
  ELSE IF s = "off" THEN [ok |-> TRUE, opt |-> "Omit", msg |-> ""]
  ELSE [ok |-> FALSE, opt |-> "Omit", msg |-> "invalid policy " \o Quote(s)]

\* Impls::default()
Impls_default ==
  [debug |-> "Implement", display |-> "Implement",
   clone |-> "Implement", serde |-> "Omit"]

(****************************** check mode *********************************)
\* One half of IndefiniteCheckMode: unset, explicitly absent (the bare key)
\* or set to a type.
Unset == [state |-> "unset", ty |-> NoType]
ExplicitNone == [state |-> "none", ty |-> NoType]
SetTo(ty) == [state |-> "set", ty |-> ty]

FromOption(o) == IF o.some THEN SetTo(o.val) ELSE ExplicitNone

\* IndefiniteCheckMode::None
IndefiniteCheckMode_None == [validator |-> Unset, normalizer |-> Unset]

\* IndefiniteCheckMode::try_set_validator
try_set_validator(cm, v) ==
  IF cm.validator.state # "unset"
    THEN [ok |-> FALSE, cm |-> cm,
          msg |-> VALIDATOR \o " can only be specified once"]
  ELSE [ok |-> TRUE, cm |-> [cm EXCEPT !.validator = FromOption(v)], msg |-> ""]

\* IndefiniteCheckMode::try_set_normalizer
try_set_normalizer(cm, n) ==
  IF cm.normalizer.state # "unset"
    THEN [ok |-> FALSE, cm |-> cm,
          msg |-> NORMALIZER \o " can only be specified once"]
  ELSE [ok |-> TRUE, cm |-> [cm EXCEPT !.normalizer = FromOption(n)], msg |-> ""]

\* The validator inferred from the owned type's name: the owned type itself.
InferredValidator(owned_ty) == TypeOfIdent(owned_ty)

\* CheckMode, the resolved policy.
CheckMode_None == [mode |-> "None", validator |-> NoType, normalizer |-> NoType]
CheckMode_Validate(v) ==
  [mode |-> "Validate", validator |-> v, normalizer |-> NoType]
CheckMode_ValidateAndNormalize(v, n) ==
  [mode |-> "ValidateAndNormalize", validator |-> v, normalizer |-> n]

\* IndefiniteCheckMode::infer_validator_if_missing (section 4.2).  A
\* normalizer given as the bare key names no normalizer and resolves as an
\* unset one; a validator given as the bare key is the inferred one.
infer_validator_if_missing(cm, owned_ty) ==
  LET v == IF cm.validator.state = "set" THEN cm.validator.ty
           ELSE InferredValidator(owned_ty)
  IN IF cm.normalizer.state = "set"
       THEN CheckMode_ValidateAndNormalize(v, cm.normalizer.ty)
     ELSE IF cm.validator.state = "unset" THEN CheckMode_None
     ELSE CheckMode_Validate(v)

(**************************** configuration ********************************)
\* syn::Lit: a string literal or another literal (an integer).
NoLit == [kind |-> "None", text |-> ""]
LitStr(s) == [kind |-> "Str", text |-> s]
LitInt(s) == [kind |-> "Int", text |-> s]

\* syn::NestedMeta: Meta(Path), Meta(NameValue), Meta(List) or Lit.
MetaPath(p) == [shape |-> "Path", path |-> p, lit |-> NoLit, nested |-> <<>>]
MetaNameValue(p, l) ==
  [shape |-> "NameValue", path |-> p, lit |-> l, nested |-> <<>>]
MetaList(p, n) == [shape |-> "List", path |-> p, lit |-> NoLit, nested |-> n]
NestedLit(l) == [shape |-> "Lit", path |-> "", lit |-> l, nested |-> <<>>]

\* <Params as Default>::default
Params_default ==
  [ref_ty |-> NoneTy,
   ref_doc |-> <<>>,
   ref_attrs |-> <<>>,
   owned_attrs |-> <<>>,
   check_mode |-> IndefiniteCheckMode_None,
   impls |-> Impls_default]

\* Result<Params, syn::Error> of one match arm.
ArmOk(params) == [ok |-> TRUE, params |-> params, msg |-> ""]
ArmErr(params, msg) == [ok |-> FALSE, params |-> params, msg |-> msg]

\* ref = "Type"
ArmRef(params, arg) ==
  LET r == parse_lit_into_type(REF, arg.lit) IN
  IF r.ok THEN ArmOk([params EXCEPT !.ref_ty = SomeTy(r.ty)])
  ELSE ArmErr(params, r.msg)

\* validator = "Type"
ArmValidatorValue(params, arg) ==
  LET r == parse_lit_into_type(VALIDATOR, arg.lit) IN
  IF ~r.ok THEN ArmErr(params, r.msg)
  ELSE LET t == try_set_validator(params.check_mode, SomeTy(r.ty)) IN
       IF t.ok THEN ArmOk([params EXCEPT !.check_mode = t.cm])
       ELSE ArmErr(params, t.msg)

\* normalizer = "Type"
ArmNormalizerValue(params, arg) ==
  LET r == parse_lit_into_type(NORMALIZER, arg.lit) IN
  IF ~r.ok THEN ArmErr(params, r.msg)
  ELSE LET t == try_set_normalizer(params.check_mode, SomeTy(r.ty)) IN
       IF t.ok THEN ArmOk([params EXCEPT !.check_mode = t.cm])
       ELSE ArmErr(params, t.msg)

\* ref_doc = "text"
ArmRefDoc(params, arg) ==
  ArmOk([params EXCEPT !.ref_doc = Append(@, arg.lit)])

\* ref_attr(...)
ArmRefAttr(params, arg) ==
  ArmOk([params EXCEPT !.ref_attrs = @ \o arg.nested])

\* owned_attr(...)
ArmOwnedAttr(params, arg) ==
  ArmOk([params EXCEPT !.owned_attrs = @ \o arg.nested])

\* debug = "policy"
ArmDebug(params, arg) ==
  LET s == parse_lit_into_string(DEBUG, arg.lit) IN
  IF ~s.ok THEN ArmErr(params, s.msg)
  ELSE LET o == DelegatingImplOption_parse(s.s) IN
       IF o.ok THEN ArmOk([params EXCEPT !.impls.debug = o.opt])
       ELSE ArmErr(params, o.msg)

\* display = "policy"
ArmDisplay(params, arg) ==
  LET s == parse_lit_into_string(DISPLAY, arg.lit) IN
  IF ~s.ok THEN ArmErr(params, s.msg)
  ELSE LET o == DelegatingImplOption_parse(s.s) IN
       IF o.ok THEN ArmOk([params EXCEPT !.impls.display = o.opt])
       ELSE ArmErr(params, o.msg)

\* clone = "policy"
ArmClone(params, arg) ==
  LET s == parse_lit_into_string(CLONE, arg.lit) IN
  IF ~s.ok THEN ArmErr(params, s.msg)
  ELSE LET o == ImplOption_parse(s.s) IN
       IF o.ok THEN ArmOk([params EXCEPT !.impls.clone = o.opt])
       ELSE ArmErr(params, o.msg)

\* serde = "policy"
ArmSerdeValue(params, arg) ==
  LET s == parse_lit_into_string(SERDE, arg.lit) IN
  IF ~s.ok THEN ArmErr(params, s.msg)
  ELSE LET o == ImplOption_parse(s.s) IN
       IF o.ok THEN ArmOk([params EXCEPT !.impls.serde = o.opt])
       ELSE ArmErr(params, o.msg)

\* serde
ArmSerdePath(params, arg) ==
  ArmOk([params EXCEPT !.impls.serde = "Implement"])

\* validator, silently replacing an earlier setting
ArmValidatorPath_Overwrites(params, arg) ==
  ArmOk([params EXCEPT !.check_mode.validator = ExplicitNone])

\* validator
ArmValidatorPath(params, arg) ==
  LET t == try_set_validator(params.check_mode, NoneTy) IN
  IF t.ok THEN ArmOk([params EXCEPT !.check_mode = t.cm])
  ELSE ArmErr(params, t.msg)

\* normalizer
ArmNormalizerPath(params, arg) ==
  LET t == try_set_normalizer(params.check_mode, NoneTy) IN
  IF t.ok THEN ArmOk([params EXCEPT !.check_mode = t.cm])
  ELSE ArmErr(params, t.msg)

\* any other bare key or name = value
ArmUnsupportedNamed(params, arg) ==
  ArmErr(params, "unsupported argument " \o Quote(arg.path))

\* anything else: a nested list, a literal
ArmUnsupported(params, arg) ==
  ArmErr(params, "unsupported argument")

\* The match of Params::parse on one entry, arm by arm in the code's order.
ParseArg(params, arg) ==
  LET nv(k) == arg.shape = "NameValue" /\ arg.path = k
      list(k) == arg.shape = "List" /\ arg.path = k
      path(k) == arg.shape = "Path" /\ arg.path = k
  IN IF nv(REF) THEN ArmRef(params, arg)
     ELSE IF nv(VALIDATOR) THEN ArmValidatorValue(params, arg)
     ELSE IF nv(NORMALIZER) THEN ArmNormalizerValue(params, arg)
     ELSE IF nv(REF_DOC) THEN ArmRefDoc(params, arg)
     ELSE IF list(REF_ATTR) THEN ArmRefAttr(params, arg)
     ELSE IF list(OWNED_ATTR) THEN ArmOwnedAttr(params, arg)
     ELSE IF nv(DEBUG) THEN ArmDebug(params, arg)
     ELSE IF nv(DISPLAY) THEN ArmDisplay(params, arg)
     ELSE IF nv(CLONE) THEN ArmClone(params, arg)
     ELSE IF nv(SERDE) THEN ArmSerdeValue(params, arg)
     ELSE IF path(SERDE) THEN ArmSerdePath(params, arg)
     ELSE IF path(VALIDATOR) THEN ArmValidatorPath(params, arg)
     ELSE IF path(NORMALIZER) THEN ArmNormalizerPath(params, arg)
     ELSE IF arg.shape \in {"Path", "NameValue"}
       THEN ArmUnsupportedNamed(params, arg)
     ELSE ArmUnsupported(params, arg)

\* The loop of Params::parse from entry i on: the first error ends it.  at is
\* the index of the entry the error is attached to (its span), 0 on success.
RECURSIVE ParseFrom(_, _, _)
ParseFrom(params, args, i) ==
  IF i > Len(args) THEN [ok |-> TRUE, params |-> params, msg |-> "", at |-> 0]
  ELSE LET r == ParseArg(params, args[i]) IN
       IF r.ok THEN ParseFrom(r.params, args, i + 1)
       ELSE [ok |-> FALSE, params |-> Params_default, msg |-> r.msg, at |-> i]

\* Params::parse
Params_parse(args) == ParseFrom(Params_default, args, 1)

(**************************** declaration **********************************)
\* The field create_field_if_none synthesizes: (String), with no attributes.
StringField ==
  [vis |-> "Inherited",
   attrs |-> <<>>,
   colon_token |-> FALSE,
   ident |-> NoneIdent,
   ty |-> [variant |-> "Verbatim", tokens |-> <<"String">>]]

\* syn::Fields::is_empty: Unit, or Named/Unnamed with no field.
Fields_is_empty(fields) == fields.list = <<>>

\* create_field_if_none without its is_empty test, adding the String field
\* to whatever the declaration holds
create_field_if_none_Appends(fields) ==
  [kind |-> "Unnamed", list |-> fields.list \o <<StringField>>]

\* create_field_if_none without its is_empty test, replacing whatever the
\* declaration holds by the String field
create_field_if_none_Replaces(fields) ==
  [kind |-> "Unnamed", list |-> <<StringField>>]

\* create_field_if_none: the field list after the call.
create_field_if_none(fields) ==
  IF Fields_is_empty(fields)
    THEN [kind |-> "Unnamed", list |-> <<StringField>>]
  ELSE fields

\* get_field_info, taking the last field and never refusing a second one
get_field_info_NoCount(fields) ==
  IF fields.list = <<>>
    THEN [tag |-> "Panic", ty |-> NoType, ident |-> NoneIdent, attrs |-> <<>>,
          msg |-> "called Option::unwrap() on a None value"]
  ELSE LET field == fields.list[Len(fields.list)] IN
       [tag |-> "Ok", ty |-> field.ty, ident |-> field.ident,
        attrs |-> field.attrs, msg |-> ""]

\* get_field_info: the first field's type, name and attributes; an error when
\* a second field follows; iter.next().unwrap() panics on an empty list.
get_field_info(fields) ==
  IF fields.list = <<>>
    THEN [tag |-> "Panic", ty |-> NoType, ident |-> NoneIdent, attrs |-> <<>>,
          msg |-> "called Option::unwrap() on a None value"]
  ELSE IF Len(fields.list) >= 2
    THEN [tag |-> "Err", ty |-> NoType, ident |-> NoneIdent, attrs |-> <<>>,
          msg |-> "typed string can only have one field"]
  ELSE LET field == fields.list[1] IN
       [tag |-> "Ok", ty |-> field.ty, ident |-> field.ident,
        attrs |-> field.attrs, msg |-> ""]

\* format_ident!: Ident::new of the formatted text, which panics on a text
\* that is no identifier.
format_ident(s) ==
  IF IsIdent(s) THEN [panic |-> FALSE, ty |-> TypeOfIdent(s)]
  ELSE [panic |-> TRUE, ty |-> NoType]

\* infer_ref_type_from_owned_name
infer_ref_type_from_owned_name(name) ==
  IF EndsWith(name, "Buf")
    THEN format_ident(SubSeq(name, 1, Len(name) - 3))
  ELSE format_ident(name \o "Ref")

\* ref_ty.unwrap_or_else(|| infer_ref_type_from_owned_name(owned_ty))
ResolveRefTy(ref_ty, owned_ty) ==
  IF ref_ty.some THEN [panic |-> FALSE, ty |-> ref_ty.val]
  ELSE infer_ref_type_from_owned_name(owned_ty)

\* The documentation line build gives a reference type that has none.
DefaultRefDoc(owned_ty) ==
  LitStr("A reference to a borrowed [" \o Quote(owned_ty) \o "]")

\* Field and FieldName
FieldName_Unnamed == [kind |-> "Unnamed", ident |-> ""]
FieldName_Named(id) == [kind |-> "Named", ident |-> id]
NoFieldInfo == [attrs |-> <<>>, name |-> FieldName_Unnamed, ty |-> NoType]

\* CodeGen
NoCodeGen ==
  [check_mode |-> CheckMode_None, field |-> NoFieldInfo, owned_attrs |-> <<>>,
   ref_doc |-> <<>>, ref_attrs |-> <<>>, ref_ty |-> NoType,
   impls |-> Impls_default]

\* infer_validator_if_missing(owned_ty) as build calls it, handed the
\* reference type's name in place of the owned type's
ResolveCheckMode_FromRefName(check_mode, owned_ty, ref_ty) ==
  infer_validator_if_missing(check_mode, TypeToString(ref_ty))

\* check_mode.infer_validator_if_missing(owned_ty), as build calls it
ResolveCheckMode(check_mode, owned_ty, ref_ty) ==
  infer_validator_if_missing(check_mode, owned_ty)

\* Params::build: what it returns (tag Ok with the CodeGen, Err with the
\* message, or Panic), the declaration as the call leaves it, and the
\* outcome of the field resolution.
Params_build(params, body) ==
  LET fields == create_field_if_none(body.fields)
      body1 == [body EXCEPT !.fields = fields]
      info == get_field_info(fields)
      owned_ty == body.ident
      ref_doc == IF params.ref_doc = <<>> THEN <<DefaultRefDoc(owned_ty)>>
                 ELSE params.ref_doc
      ref_ty == ResolveRefTy(params.ref_ty, owned_ty)
      field == [attrs |-> info.attrs,
                name |-> IF info.ident.some
                           THEN FieldName_Named(info.ident.val)
                         ELSE FieldName_Unnamed,
                ty |-> info.ty]
  IN IF info.tag # "Ok"
       THEN [tag |-> info.tag, msg |-> info.msg, body |-> body1,
             info |-> info, codegen |-> NoCodeGen]
     ELSE IF ref_ty.panic
       THEN [tag |-> "Panic", msg |-> "Ident is not allowed to be empty",
             body |-> body1, info |-> info, codegen |-> NoCodeGen]
     ELSE [tag |-> "Ok", msg |-> "", body |-> body1, info |-> info,
           codegen |->
             [check_mode |->
                ResolveCheckMode(params.check_mode, owned_ty, ref_ty.ty),
              field |-> field,
              owned_attrs |-> params.owned_attrs,
              ref_doc |-> ref_doc,
              ref_attrs |-> params.ref_attrs,
              ref_ty |-> ref_ty.ty,
              impls |-> params.impls]]

NotBuilt ==
  [tag |-> "None", msg |-> "",
   body |-> [ident |-> "", fields |-> [kind |-> "Unit", list |-> <<>>],
             vis |-> "", attrs |-> <<>>],
   info |-> [tag |-> "None", ty |-> NoType, ident |-> NoneIdent,
             attrs |-> <<>>, msg |-> ""],
   codegen |-> NoCodeGen]

(***************************** generation **********************************)
\* CodeGen::owned
CodeGen_owned(cg, body) ==
  [common_attrs |-> body.attrs,
   check_mode |-> cg.check_mode,
   body |-> body,
   field |-> cg.field,
   attrs |-> cg.owned_attrs,
   ty |-> body.ident,
   ref_ty |-> cg.ref_ty,
   impls |-> cg.impls]

NoRefCodeGen ==
  [doc |-> <<>>, common_attrs |-> <<>>, check_mode |-> CheckMode_None,
   vis |-> "", field |-> NoFieldInfo, attrs |-> <<>>, ty |-> NoType,
   ident |-> "", owned_ty |-> "", impls |-> Impls_default]

\* CodeGen::borrowed: syn::Ident::new panics when the reference type's
\* tokens are not one identifier.
CodeGen_borrowed(cg, body) ==
  LET name == TypeToString(cg.ref_ty) IN
  IF ~IsIdent(name) THEN [panic |-> TRUE, bundle |-> NoRefCodeGen]
  ELSE [panic |-> FALSE,
        bundle |->
          [doc |-> cg.ref_doc,
           common_attrs |-> body.attrs,
           check_mode |-> cg.check_mode,
           vis |-> body.vis,
           field |-> cg.field,
           attrs |-> cg.ref_attrs,
           ty |-> cg.ref_ty,
           ident |-> name,
           owned_ty |-> body.ident,
           impls |-> cg.impls]]

\* OwnedCodeGen::tokens and RefCodeGen::tokens: the emitted declaration, one
\* unit per bundle.
OwnedCodeGen_tokens(bundle) == [half |-> "owned", decl |-> bundle]
RefCodeGen_tokens(bundle) == [half |-> "borrowed", decl |-> bundle]

(******************************* inputs ************************************)
\* Entries of every shape: recognized keys in the forms Params::parse
\* accepts, with good and bad literals, recognized keys in other forms,
\* an unknown key in each form, and a bare literal.
ArgSet ==
  { MetaNameValue(REF, LitStr("Bar")),
    MetaNameValue(REF, LitStr("a::B")),
    MetaNameValue(VALIDATOR, LitStr("V")),
    MetaNameValue(VALIDATOR, LitInt("42")),
    MetaPath(VALIDATOR),
    MetaNameValue(NORMALIZER, LitStr("N")),
    MetaPath(NORMALIZER),
    MetaNameValue(REF_DOC, LitStr("doc")),
    MetaList(REF_ATTR, <<"r">>),
    MetaList(OWNED_ATTR, <<"o">>),
    MetaNameValue(DEBUG, LitStr("delegate")),
    MetaNameValue(DISPLAY, LitStr("off")),
    MetaNameValue(CLONE, LitStr("off")),
    MetaNameValue(CLONE, LitStr("delegate")),
    MetaNameValue(SERDE, LitStr("implement")),
    MetaPath(SERDE),
    MetaPath("unknown"),
    MetaNameValue("unknown", LitStr("x")),
    MetaList("unknown", <<"x">>),
    MetaList(VALIDATOR, <<"x">>),
    MetaPath(DEBUG),
    MetaNameValue(REF_ATTR, LitStr("x")),
    NestedLit(LitStr("x")) }

\* The entries the pipeline is run on: those that reach Params::build, and
\* one that Params::parse refuses.
BuildArgSet ==
  { MetaNameValue(REF, LitStr("Bar")),
    MetaNameValue(REF, LitStr("a::B")),
    MetaNameValue(VALIDATOR, LitStr("V")),
    MetaPath(VALIDATOR),
    MetaNameValue(NORMALIZER, LitStr("N")),
    MetaPath(NORMALIZER),
    MetaNameValue(REF_DOC, LitStr("doc")),
    MetaList(REF_ATTR, <<"r">>),
    MetaList(OWNED_ATTR, <<"o">>),
    MetaNameValue(DEBUG, LitStr("delegate")),
    MetaPath("unknown") }

\* syn::AttributeArgs: the lists of at most MaxArgs entries of S.
ArgSeqs(S) == UNION { [1..n -> S] : n \in 0..MaxArgs }

\* Names of owned types.
OwnedNames == {"Buf", "FooBuf", "Foo", "Buff"}

FieldIdents == <<"inner", "second", "third", "fourth">>

\* The i-th field of a declared field list of kind k.
DeclField(k, i) ==
  IF k = "Named"
    THEN [vis |-> "pub", attrs |-> <<"serde">>, colon_token |-> TRUE,
          ident |-> SomeIdent(FieldIdents[i]),
          ty |-> [variant |-> "Path", tokens |-> <<"String">>]]
  ELSE [vis |-> "Inherited", attrs |-> <<>>, colon_token |-> FALSE,
        ident |-> NoneIdent,
        ty |-> [variant |-> "Path", tokens |-> <<"String">>]]

\* syn::Fields: unit, or named or unnamed with at most MaxFields fields.
DeclFields ==
  { [kind |-> "Unit", list |-> <<>>] } \cup
  { [kind |-> k, list |-> [i \in 1..n |-> DeclField(k, i)]] :
      k \in {"Named", "Unnamed"}, n \in 0..MaxFields }

\* syn::ItemStruct
Decls ==
  [ident : OwnedNames, fields : DeclFields, vis : {"pub"},
   attrs : {<<"derive">>}]

(******************************** state ************************************)
VARIABLES
  args,          \* the configuration entries of the invocation
  body,          \* the caller's type declaration (&mut syn::ItemStruct)
  orig,          \* the declaration as it was handed to this run
  pc,            \* parse, build, owned, borrowed, done, failed or panicked
  parsed,        \* what Params::parse returned
  built,         \* what Params::build returned
  owned_tokens,  \* generate's local owned, once computed
  output,        \* what CodeGen::generate returned
  rerun,         \* whether this is the second run on the same declaration
  prev           \* the outcome of the first run, once it has ended

vars ==
  <<args, body, orig, pc, parsed, built, owned_tokens, output, rerun, prev>>

NotParsed == [ok |-> FALSE, params |-> Params_default, msg |-> "", at |-> 0]

Ended == pc \in {"done", "failed", "panicked"}

\* What a run of the pipeline came to.
Outcome == [pc |-> pc, parsed |-> parsed, built |-> built, output |-> output]

InitWith(S) ==
  /\ args \in ArgSeqs(S)
  /\ body \in Decls
  /\ orig = body
  /\ pc = "parse"
  /\ parsed = NotParsed
  /\ built = NotBuilt
  /\ owned_tokens = <<>>
  /\ output = <<>>
  /\ rerun = FALSE
  /\ prev = <<>>

Init == InitWith(BuildArgSet)

\* Params::parse(args)
Parse ==
  /\ pc = "parse"
  /\ parsed' = Params_parse(args)
  /\ pc' = IF parsed'.ok THEN "build" ELSE "failed"
  /\ UNCHANGED <<args, body, orig, built, owned_tokens, output, rerun, prev>>

\* params.build(&mut body)
Build ==
  /\ pc = "build"
  /\ built' = Params_build(parsed.params, body)
  /\ body' = built'.body
  /\ pc' = IF built'.tag = "Ok" THEN "owned"
           ELSE IF built'.tag = "Err" THEN "failed"
           ELSE "panicked"
  /\ UNCHANGED <<args, orig, parsed, owned_tokens, output, rerun, prev>>

\* CodeGen::generate, first statement: let owned = self.owned().tokens()
GenerateOwned ==
  /\ pc = "owned"
  /\ owned_tokens' = <<OwnedCodeGen_tokens(CodeGen_owned(built.codegen, body))>>
  /\ pc' = "borrowed"
  /\ UNCHANGED <<args, body, orig, parsed, built, output, rerun, prev>>

\* CodeGen::generate, the rest: let ref_ = self.borrowed().tokens(), and the
\* two concatenated
GenerateBorrowed ==
  /\ pc = "borrowed"
  /\ LET b == CodeGen_borrowed(built.codegen, body) IN
     IF b.panic
       THEN /\ pc' = "panicked"
            /\ output' = output
     ELSE /\ pc' = "done"
          /\ output' = owned_tokens \o <<RefCodeGen_tokens(b.bundle)>>
  /\ UNCHANGED <<args, body, orig, parsed, built, owned_tokens, rerun, prev>>

\* The caller runs the pipeline again on the same declaration and the same
\* entries.
Rerun ==
  /\ Ended
  /\ ~rerun
  /\ rerun' = TRUE
  /\ prev' = <<Outcome>>
  /\ orig' = body
  /\ pc' = "parse"
  /\ parsed' = NotParsed
  /\ built' = NotBuilt
  /\ owned_tokens' = <<>>
  /\ output' = <<>>
  /\ UNCHANGED <<args, body>>

Next == Parse \/ Build \/ GenerateOwned \/ GenerateBorrowed \/ Rerun

Spec == Init /\ [][Next]_vars

\* Params::parse alone, on entries of every shape.
InitParse == InitWith(ArgSet) /\ body.ident = "Foo" /\ body.fields.kind = "Unit"

NextParse == Parse

SpecParse == InitParse /\ [][NextParse]_vars

(******************************* claims ************************************)
\* The entries before the i-th are all accepted.
PrefixAccepted(i) == Params_parse(SubSeq(args, 1, i - 1)).ok

\* The forms the table of section 4.1 lists for each key.
ListedForm(e) ==
  \/ e.path \in {VALIDATOR, NORMALIZER} /\ e.shape \in {"NameValue", "Path"}
  \/ e.path \in {REF, REF_DOC, DEBUG, DISPLAY, CLONE, SERDE}
       /\ e.shape = "NameValue"
  \/ e.path \in {REF_ATTR, OWNED_ATTR} /\ e.shape = "List"

\* C1: an entry with a key (bare, name = value or nested list) that is not
\* in one of the forms section 4.1 lists, being the first entry parse
\* refuses, makes parse fail at that entry with the message "unsupported
\* argument" followed by the entry's key between backticks.
C1_UnsupportedNamesKey ==
  pc # "parse" =>
    \A i \in 1..Len(args) :
      ( /\ args[i].shape \in {"Path", "NameValue", "List"}
        /\ ~ListedForm(args[i])
        /\ PrefixAccepted(i) )
      => /\ ~parsed.ok
         /\ parsed.at = i
         /\ parsed.msg = "unsupported argument " \o Quote(args[i].path)

\* The indices of the entries that set key k, by value or bare.
Occurrences(k) ==
  { i \in 1..Len(args) :
      args[i].path = k /\ args[i].shape \in {"NameValue", "Path"} }

\* The second smallest element of a set of at least two numbers.
Second(S) ==
  CHOOSE j \in S : Cardinality({ i \in S : i < j }) = 1

\* The conflict error for key k.
ConflictMsg(k) == k \o " can only be specified once"

\* The i-th entry carries no literal, or one that holds a type.
LiteralHoldsType(i) ==
  args[i].shape = "Path" \/ parse_lit_into_type(args[i].path, args[i].lit).ok

\* C2 as stated: whenever validator (or normalizer) appears twice, by value
\* or bare, parse fails at the second occurrence with the conflict error
\* that names the key.
C2_ConflictAtSecond ==
  pc # "parse" =>
    \A k \in {VALIDATOR, NORMALIZER} :
      Cardinality(Occurrences(k)) >= 2 =>
        /\ ~parsed.ok
        /\ parsed.at = Second(Occurrences(k))
        /\ parsed.msg = ConflictMsg(k)

\* C2, amended: whenever validator (or normalizer) appears twice, parse never
\* returns Ok; the error is the conflict error naming the key, raised at the
\* second occurrence, when every entry before the second occurrence is
\* accepted and the second occurrence's literal, if it has one, holds a type.
C2_ConflictAtSecondUnlessEarlierError ==
  pc # "parse" =>
    \A k \in {VALIDATOR, NORMALIZER} :
      Cardinality(Occurrences(k)) >= 2 =>
        /\ ~parsed.ok
        /\ LET j == Second(Occurrences(k)) IN
           (PrefixAccepted(j) /\ LiteralHoldsType(j)) =>
             /\ parsed.at = j
             /\ parsed.msg = ConflictMsg(k)

\* C2 witness: validator by value, then bare: refused at the second entry.
C2_Witness ==
  /\ pc = "failed"
  /\ Len(args) = 2
  /\ args[1] = MetaNameValue(VALIDATOR, LitStr("V"))
  /\ args[2] = MetaPath(VALIDATOR)
  /\ parsed.at = 2
  /\ parsed.msg = ConflictMsg(VALIDATOR)

\* The scalar fields of Params.
Scalars(params) ==
  [ref_ty |-> params.ref_ty, check_mode |-> params.check_mode,
   impls |-> params.impls]

\* The nested items of the lists of key k, in input order.
RECURSIVE NestedOf(_, _)
NestedOf(k, as) ==
  IF as = <<>> THEN <<>>
  ELSE (IF Head(as).shape = "List" /\ Head(as).path = k
          THEN Head(as).nested ELSE <<>>) \o NestedOf(k, Tail(as))

\* The literals of the name = value entries of key k, in input order.
RECURSIVE LitsOf(_, _)
LitsOf(k, as) ==
  IF as = <<>> THEN <<>>
  ELSE (IF Head(as).shape = "NameValue" /\ Head(as).path = k
          THEN <<Head(as).lit>> ELSE <<>>) \o LitsOf(k, Tail(as))

\* C3: every permutation of the entries gives the same outcome (both fail or
\* both succeed) and, on success, the same scalar fields of Params; the
\* list-valued fields hold their entries in input order.
C3_OrderIrrelevant ==
  pc # "parse" =>
    /\ \A f \in Permutations(1..Len(args)) :
         LET r == Params_parse([i \in 1..Len(args) |-> args[f[i]]]) IN
         /\ r.ok = parsed.ok
         /\ r.ok => Scalars(r.params) = Scalars(parsed.params)
    /\ parsed.ok =>
         /\ parsed.params.ref_attrs = NestedOf(REF_ATTR, args)
         /\ parsed.params.owned_attrs = NestedOf(OWNED_ATTR, args)
         /\ parsed.params.ref_doc = LitsOf(REF_DOC, args)

\* Params::build has run in this run of the pipeline.
BuildRan == built.tag # "None"

\* C4: once the field is resolved, build returns Ok with the reference type
\* the rules give: the override when there is one; else the owned name
\* without its suffix "Buf" when it ends with it; else the owned name
\* followed by "Ref".
C4_RefTypeResolved ==
  (BuildRan /\ built.info.tag = "Ok") =>
    /\ built.tag = "Ok"
    /\ LET N == orig.ident
           o == parsed.params.ref_ty
       IN built.codegen.ref_ty =
            IF o.some THEN o.val
            ELSE IF EndsWith(N, "Buf")
              THEN [variant |-> "Path", tokens |-> <<SubSeq(N, 1, Len(N) - 3)>>]
            ELSE [variant |-> "Path", tokens |-> <<N \o "Ref">>]

\* The type a string literal holding one identifier stands for.
TypeNamed(text) == [variant |-> "Path", tokens |-> <<text>>]

\* The entries give key k a value / give it bare.
ValueOf(k) ==
  { args[i].lit.text : i \in { j \in 1..Len(args) :
      args[j].shape = "NameValue" /\ args[j].path = k } }
GivenBare(k) ==
  \E i \in 1..Len(args) : args[i].shape = "Path" /\ args[i].path = k

C6_FieldResolution ==
  BuildRan =>
    LET n == Len(orig.fields.list)
        info == built.info
    IN /\ info.tag # "Panic"
       /\ n = 0 =>
            /\ body.fields = [kind |-> "Unnamed", list |-> <<StringField>>]
            /\ info.tag = "Ok"
            /\ info.ty = [variant |-> "Verbatim", tokens |-> <<"String">>]
            /\ info.ident = NoneIdent
            /\ info.attrs = <<>>
       /\ n = 1 =>
            /\ info.tag = "Ok"
            /\ info.ty = orig.fields.list[1].ty
            /\ info.ident = orig.fields.list[1].ident
            /\ info.attrs = orig.fields.list[1].attrs
       /\ n >= 2 =>
            /\ info.tag = "Err"
            /\ built.tag = "Err"
            /\ built.msg = "typed string can only have one field"
       /\ built.tag = "Ok" =>
            /\ built.codegen.field.ty = info.ty
            /\ built.codegen.field.attrs = info.attrs
            /\ built.codegen.field.name =
                 IF n = 1 /\ orig.fields.kind = "Named"
                   THEN FieldName_Named(orig.fields.list[1].ident.val)
                 ELSE FieldName_Unnamed

\* C6 witness: a declaration without fields, resolved to the String field.
C6_Witness ==
  /\ BuildRan
  /\ ~rerun
  /\ orig.fields.list = <<>>
  /\ built.info.tag = "Ok"
  /\ built.codegen.field.name = FieldName_Unnamed

\* C7: once build has returned Ok, generate completes and returns both
\* bundles: a run that has ended after an Ok build has ended in done.
C7_NoFailureAfterBuild ==
  (built.tag = "Ok" /\ Ended) => (pc = "done" /\ Len(output) = 2)

\* C8: the second run of the pipeline on the same entries and on the
\* declaration as the first run left it ends as the first did: the same
\* parse and build results (field, check mode, reference type) and the same
\* output.
C8_Idempotent ==
  (rerun /\ Ended) => Outcome = prev[1]

\* C8 witness: both runs are done, on a declaration that had no field (the
\* second run found the synthesized String field in place).
C8_Witness ==
  /\ rerun
  /\ pc = "done"
  /\ orig.fields.list = <<StringField>>
  /\ prev[1].pc = "done"
  /\ Len(output) = 2

\* C9: for every CodeGen build returned, generate emits exactly two bundles,
\* owned then borrowed, with the same check mode, field, capability policy,
\* owned type name and reference type, and each with its own attributes.
C9_BundlesAgree ==
  (built.tag = "Ok" /\ Ended) =>
    /\ Len(output) = 2
    /\ output[1].half = "owned"
    /\ output[2].half = "borrowed"
    /\ LET o == output[1].decl
           b == output[2].decl
       IN /\ o.check_mode = b.check_mode
          /\ o.field = b.field
          /\ o.impls = b.impls
          /\ o.ty = b.owned_ty
          /\ o.ref_ty = b.ty
          /\ o.attrs = built.codegen.owned_attrs
          /\ b.attrs = built.codegen.ref_attrs

\* C10: build changes the declaration in one case only: a declaration
\* without fields gets the single unnamed String field.  Its name,
\* visibility and attributes never change, and when build returns an error
\* the declaration is as it was.
C10_DeclarationFrame ==
  /\ body.ident = orig.ident
  /\ body.vis = orig.vis
  /\ body.attrs = orig.attrs
  /\ orig.fields.list # <<>> => body = orig
  /\ ~BuildRan => body = orig
  /\ (BuildRan /\ orig.fields.list = <<>>) =>
       body.fields = [kind |-> "Unnamed", list |-> <<StringField>>]
  /\ built.tag = "Err" => body = orig

\* C10 witness: build refused a declaration with two fields and left it as
\* it was.
C10_Witness ==
  /\ built.tag = "Err"
  /\ Len(orig.fields.list) >= 2
  /\ body = orig

=============================================================================
